---- MODULE Spec2Model ----
(***************************************************************************)
(* A model of the hidraw gamepad tool:                                     *)
(*   - parse_hid_descriptor (src/src/descriptor.rs), the HID report        *)
(*     descriptor item parser, under SpecParse;                            *)
(*   - monitor_devices_internal (src/src/device_monitor.rs), the udev      *)
(*     device monitor, under SpecMonitor;                                  *)
(*   - watch_one_device (src/src/device.rs), the per-device watcher task,  *)
(*     under SpecWatch and (with fairness) LiveWatch;                      *)
(*   - HidReportParser (src/src/report.rs), len() and parse(), under       *)
(*     SpecReport;                                                         *)
(*   - the start-up of monitor_devices_internal on a host whose devices    *)
(*     come and go, under SpecStartup.                                     *)
(***************************************************************************)
EXTENDS Integers, Sequences, FiniteSets, TLC

(***************************************************************************)
(* Bounds of the model.                                                    *)
(***************************************************************************)
\* Longest descriptor buffer that is parsed.
MaxLen == 6
\* Most udev notifications the monitor socket delivers in a run.
MaxNotes == 2
\* Input events the watcher counts; further ones leave the count as it is.
MaxReads == 3
\* Most cancellation signals sent on a watcher's stop channel.
MaxStops == 1
\* Most items of a drawn report layout.
MaxFields == 3
\* Longest report buffer handed to parse().
MaxReport == 3
\* Most devices attached or detached in a run of the start-up.
MaxChanges == 2

(***************************************************************************)
(* descriptor.rs: constants and bit arithmetic on u8.                      *)
(***************************************************************************)
LONG_ITEM == 254
SIZE_MASK == 3
TYPE_MASK == 12
TAG_MASK == 240

Byte == 0..255

\* Bytes that stand for the payload, length and long-tag bytes of a buffer.
\* Prefix bytes range over all of Byte.
SampleBytes == {0, 1, 5}

RECURSIVE BitAndN(_, _, _)
BitAndN(a, b, n) ==
    IF n = 0 THEN 0
    ELSE (IF a % 2 = 1 /\ b % 2 = 1 THEN 1 ELSE 0)
         + 2 * BitAndN(a \div 2, b \div 2, n - 1)

\* a & b on u8
BitAnd(a, b) == BitAndN(a, b, 8)

\* a >> n on u8
Shr(a, n) == a \div (2 ^ n)

\* u16::from_le_bytes
U16FromLe(b) == b[1] + 256 * b[2]

\* u32::from_le_bytes
U32FromLe(b) == b[1] + 256 * b[2] + 65536 * b[3] + 16777216 * b[4]

\* #[repr(u8)] enum ItemType
ItemType == (0 :> "Main") @@ (1 :> "Global") @@ (2 :> "Local") @@ (3 :> "Reserved")

\* #[repr(u8)] enum MainItemTag
MainItemTag ==
    (8 :> "Input") @@ (9 :> "Output") @@ (11 :> "Feature")
    @@ (10 :> "Collection") @@ (12 :> "EndCollection")

\* #[repr(u8)] enum GlobalItemTag
GlobalItemTag ==
    (0 :> "UsagePage") @@ (1 :> "LogicalMinimum") @@ (2 :> "LogicalMaximum")
    @@ (3 :> "PhysicalMinimum") @@ (4 :> "PhysicalMaximum")
    @@ (5 :> "UnitExponent") @@ (6 :> "Unit") @@ (7 :> "ReportSize")
    @@ (8 :> "ReportID") @@ (9 :> "ReportCount") @@ (10 :> "Push")
    @@ (11 :> "Pop") @@ (12 :> "Reserved")

\* Result<ItemTag>: Ok(kind(val)) or Err(err)
TagOk(kind, val) == [ok |-> TRUE, kind |-> kind, val |-> val, err |-> "none"]
TagErr(err) == [ok |-> FALSE, kind |-> "none", val |-> "none", err |-> err]
NoTag == TagErr("unset")

\* The derived TryFromPrimitive of MainItemTag and GlobalItemTag: the variant
\* whose discriminant is v, or TryFromPrimitiveError.
MainItemTag_try_from(v) ==
    IF v \in DOMAIN MainItemTag
    THEN TagOk("Main", MainItemTag[v])
    ELSE TagErr("TryFromPrimitiveError")

\* Mutant: an unknown discriminant falls back to the Reserved variant.
GlobalItemTag_try_from_defaulting(v) ==
    IF v \in DOMAIN GlobalItemTag
    THEN TagOk("Global", GlobalItemTag[v])
    ELSE TagOk("Global", "Reserved")

\* Mutant: the table ends at Pop; the discriminant 0b1100 is unknown.
GlobalItemTag_try_from_without_reserved(v) ==
    IF v \in DOMAIN GlobalItemTag \ {12}
    THEN TagOk("Global", GlobalItemTag[v])
    ELSE TagErr("TryFromPrimitiveError")

GlobalItemTag_try_from(v) ==
    IF v \in DOMAIN GlobalItemTag
    THEN TagOk("Global", GlobalItemTag[v])
    ELSE TagErr("TryFromPrimitiveError")

\* Mutant: the Reserved item type is passed through like a Local one.
ItemTag_try_from_reserved_ok(ty, tg) ==
    IF ty \notin DOMAIN ItemType
    THEN TagErr("TryFromPrimitiveError")
    ELSE CASE ItemType[ty] = "Global" -> GlobalItemTag_try_from(tg)
           [] ItemType[ty] = "Main" -> MainItemTag_try_from(tg)
           [] ItemType[ty] = "Local" -> TagOk("Local", tg)
           [] ItemType[ty] = "Reserved" -> TagOk("Local", tg)

\* impl TryFrom<(u8, u8)> for ItemTag
ItemTag_try_from(ty, tg) ==
    IF ty \notin DOMAIN ItemType
    THEN TagErr("TryFromPrimitiveError")
    ELSE CASE ItemType[ty] = "Global" -> GlobalItemTag_try_from(tg)
           [] ItemType[ty] = "Main" -> MainItemTag_try_from(tg)
           [] ItemType[ty] = "Local" -> TagOk("Local", tg)
           [] ItemType[ty] = "Reserved" -> TagErr("Bad item type")

\* enum ItemData
ItemDataOf(size, buf) ==
    CASE size = 0 -> [kind |-> "None", val |-> 0]
      [] size = 1 -> [kind |-> "U8", val |-> buf[1]]
      [] size = 2 -> [kind |-> "U16", val |-> U16FromLe(<<buf[1], buf[2]>>)]
      [] size = 3 -> [kind |-> "U32", val |-> U32FromLe(buf)]

NoItem == [kind |-> "unset", val |-> 0]

\* The fields of a short item's prefix byte, as parse_hid_descriptor takes them.
SizeOf(b) == BitAnd(b, SIZE_MASK)
TypeOf(b) == Shr(BitAnd(b, TYPE_MASK), 2)
TagOf(b) == Shr(BitAnd(b, TAG_MASK), 4)

(***************************************************************************)
(* State.                                                                  *)
(***************************************************************************)
VARIABLES
    \* parse_hid_descriptor
    data_len,   \* data.len()
    pos,        \* cur.position()
    ppc,        \* where the parser is: "loop", "long", "short", "done"
    first,      \* prefix[0]
    long_desc,  \* long_desc
    data_buf,   \* data_buf
    tag,        \* the result of ItemTag::try_from for the current item
    item,       \* the ItemData of the last short item
    result,     \* "running", "ok" (Ok(())) or "err"
    err,        \* the error returned: "none", "eof", "tag", "type"
    itemStart,  \* position of the prefix of the last item read
    consumed,   \* position after the last complete item
    \* monitor_devices_internal
    mpc,        \* where the monitor is: "scan", "listen", "monitor", "done"
    scan,       \* the devices enumerator.scan_devices() has still to yield
    devices,    \* devices: HashSet of the tracked sys_paths
    sent,       \* the events tx.send() has delivered to the channel, in order
    rx_open,    \* the channel's receiver has not been dropped
    mres,       \* "running", "ok" (Ok(())) or "err"
    nrecv,      \* the number of notifications monitor.next() has yielded
    event,      \* the notification monitor.next() yielded last
    mfuture,    \* the future monitor_devices returned: "pending", or its output "unit"
    live,       \* history: the sys_paths with a successful add and no remove since
    \* watch_one_device
    wpc,          \* where the watcher is: "open", "select", "done"
    read_enabled, \* the read branch of the pending select! is not disabled
    stop_queue,   \* the signals sent on the stop channel and not yet received
    stop_tx,      \* the stop channel's sender: "alive" or "dropped"
    dev,          \* the device node: "ok", or "gone" (reads fail)
    input_ready,  \* the device has an input event for the next read
    nread,        \* the input events read and logged
    wexit,        \* how the watcher ended: "none", "stop", "open_err"
    recv_out,     \* what stop_rx.recv() completed with: "pending", "Some", "None"
    \* HidReportParser
    inputs,     \* self.inputs: the layout, a sequence of sizes
    rpc,        \* where the parser's caller is: "len", "parse", "done"
    fold_i,     \* the items the fold of len() has summed
    bits,       \* the accumulator of the fold of len()
    len_out,    \* what len() returned
    report_len, \* _report.len() of the call of parse()
    parse_out,  \* what parse() returned: "none" before the call, then "unit"
    \* the host's hidraw subsystem, as the start-up of the monitor meets it
    attached,   \* the kind of the device at each sys_path, "none" without one
    queue,      \* the notifications queued at the monitor socket, oldest first
    nchanges    \* the devices attached or detached so far

pvars == <<data_len, pos, ppc, first, long_desc, data_buf, tag, item, result,
           err, itemStart, consumed>>

mvars == <<mpc, scan, devices, sent, rx_open, mres, nrecv, event, mfuture,
           live>>

wvars == <<wpc, read_enabled, stop_queue, stop_tx, dev, input_ready, nread,
           wexit, recv_out>>

rvars == <<inputs, rpc, fold_i, bits, len_out, report_len, parse_out>>

uvars == <<attached, queue, nchanges>>

vars == <<pvars, mvars, wvars, rvars, uvars>>

\* What the actions of each part leave alone.
not_parser == <<mvars, wvars, rvars, uvars>>
not_monitor == <<pvars, wvars, rvars, uvars>>
not_watcher == <<pvars, mvars, rvars, uvars>>
not_report == <<pvars, mvars, wvars, uvars>>

(***************************************************************************)
(* device_monitor.rs: devices, get_device_info and the monitor loop.       *)
(***************************************************************************)
\* From Linux uapi/linux/input.h
USB == 3
BLUETOOTH == 5

\* The start of a HID descriptor with usage page generic desktop and usage
\* gamepad, or joystick.
GAMEPAD_USAGE == <<5, 1, 9, 5>>
JOYSTICK_USAGE == <<5, 1, 9, 4>>

\* The sys_paths of the hidraw devices of the host.
Paths == {"hidraw0", "hidraw1"}

None == [some |-> FALSE]
Some(v) == [some |-> TRUE, val |-> v]

\* What udev and the device node answer for a device of each kind: whether it
\* has a device node and a HID parent, the keys of the parent's uevent
\* attribute (HID_ID as its ':'-separated fields, each the number its hex
\* digits stand for), and the descriptor the hidraw ioctls return (None:
\* opening the node or an ioctl fails).
DeviceAttrs ==
    ("usb_gamepad" :>
        [devnode |-> TRUE, hid_parent |-> TRUE,
         uevent |-> [HID_ID |-> <<3, 1133, 49686>>, HID_NAME |-> "F310",
                     HID_UNIQ |-> "u0"],
         descriptor |-> Some(<<5, 1, 9, 5, 161, 1>>)])
    @@ ("bt_joystick" :>
        [devnode |-> TRUE, hid_parent |-> TRUE,
         uevent |-> [HID_ID |-> <<5, 1356, 616>>, HID_NAME |-> "Stick",
                     HID_UNIQ |-> "u1"],
         descriptor |-> Some(<<5, 1, 9, 4, 161, 1>>)])
    @@ ("usb_mouse" :>
        [devnode |-> TRUE, hid_parent |-> TRUE,
         uevent |-> [HID_ID |-> <<3, 1133, 49271>>, HID_NAME |-> "Mouse",
                     HID_UNIQ |-> "u2"],
         descriptor |-> Some(<<5, 1, 9, 2, 161, 1>>)])
    @@ ("i2c_gamepad" :>
        [devnode |-> TRUE, hid_parent |-> TRUE,
         uevent |-> [HID_ID |-> <<24, 1133, 49686>>, HID_NAME |-> "Pad",
                     HID_UNIQ |-> "u3"],
         descriptor |-> Some(<<5, 1, 9, 5, 161, 1>>)])
    \* an F310 whose descriptor ends inside its third item
    @@ ("usb_gamepad_cut" :>
        [devnode |-> TRUE, hid_parent |-> TRUE,
         uevent |-> [HID_ID |-> <<3, 1133, 49686>>, HID_NAME |-> "F310",
                     HID_UNIQ |-> "u4"],
         descriptor |-> Some(<<5, 1, 9, 5, 161>>)])
    \* gamepads whose uevent attribute lacks one of the keys
    @@ ("no_hid_id" :>
        [devnode |-> TRUE, hid_parent |-> TRUE,
         uevent |-> [HID_NAME |-> "Pad", HID_UNIQ |-> "u5"],
         descriptor |-> Some(<<5, 1, 9, 5, 161, 1>>)])
    @@ ("no_hid_name" :>
        [devnode |-> TRUE, hid_parent |-> TRUE,
         uevent |-> [HID_ID |-> <<3, 1133, 49686>>, HID_UNIQ |-> "u6"],
         descriptor |-> Some(<<5, 1, 9, 5, 161, 1>>)])
    @@ ("no_hid_uniq" :>
        [devnode |-> TRUE, hid_parent |-> TRUE,
         uevent |-> [HID_ID |-> <<3, 1133, 49686>>, HID_NAME |-> "Pad"],
         descriptor |-> Some(<<5, 1, 9, 5, 161, 1>>)])

DeviceKinds == DOMAIN DeviceAttrs

\* A udev Device: its syspath and what it answers.
Device(p, k) == [sys_path |-> p, kind |-> k]

\* hid_descriptor.starts_with(&usage)
StartsWith(d, usage) ==
    /\ Len(d) >= Len(usage)
    /\ \A i \in 1..Len(usage) : d[i] = usage[i]

\* u16::from_str_radix(field, 16).ok(): the field's value when it is a hex
\* number that fits a u16 (a field that is no hex number is a negative one
\* here).
U16FromHex(field) == IF field \in 0..65535 THEN Some(field) ELSE None

\* Mutant: a bus that is neither Bluetooth nor USB is taken for USB.
parse_id_any_bus(id) ==
    IF Len(id) < 3 THEN None
    ELSE LET bus == U16FromHex(id[1])
             vid == U16FromHex(id[2])
             pid == U16FromHex(id[3])
         IN  IF ~bus.some THEN None
             ELSE IF ~vid.some \/ ~pid.some THEN None
             ELSE Some([bus |-> IF bus.val = BLUETOOTH THEN "Bluetooth" ELSE "Usb",
                        vendor_id |-> vid.val, product_id |-> pid.val])

\* parse_id: the bus, vendor id and product id of a HID_ID value, None for a
\* missing or malformed field and for an unsupported bus.
parse_id(id) ==
    IF Len(id) < 3 THEN None
    ELSE LET bus == U16FromHex(id[1])
             vid == U16FromHex(id[2])
             pid == U16FromHex(id[3])
         IN  IF ~bus.some THEN None
             ELSE IF bus.val \notin {BLUETOOTH, USB} THEN None
             ELSE IF ~vid.some \/ ~pid.some THEN None
             ELSE Some([bus |-> IF bus.val = BLUETOOTH THEN "Bluetooth" ELSE "Usb",
                        vendor_id |-> vid.val, product_id |-> pid.val])

\* report.rs: find_report_parser_for_device, reduced to whether a parser is found.
find_report_parser_for_device(vendor_id, product_id) ==
    vendor_id = 1133 /\ product_id = 49686

\* Result<DeviceInfo>
InfoErr == [ok |-> FALSE]
InfoOk(info) == [ok |-> TRUE, info |-> info]

\* get_device_info
get_device_info(device) ==
    LET a == DeviceAttrs[device.kind]
        keys == DOMAIN a.uevent
        id == IF "HID_ID" \in keys THEN parse_id(a.uevent.HID_ID) ELSE None
        name == IF "HID_NAME" \in keys THEN Some(a.uevent.HID_NAME) ELSE None
        serial == IF "HID_UNIQ" \in keys THEN Some(a.uevent.HID_UNIQ) ELSE None
    IN  IF ~a.devnode \/ ~a.hid_parent THEN InfoErr
        ELSE IF ~(id.some /\ name.some /\ serial.some) THEN InfoErr
        ELSE IF ~a.descriptor.some THEN InfoErr
        ELSE IF /\ ~StartsWith(a.descriptor.val, GAMEPAD_USAGE)
                /\ ~StartsWith(a.descriptor.val, JOYSTICK_USAGE)
             THEN InfoErr
        ELSE InfoOk([sys_path |-> device.sys_path,
                     parser |-> find_report_parser_for_device(
                                    id.val.vendor_id, id.val.product_id),
                     hid_descriptor |-> a.descriptor.val,
                     bus |-> id.val.bus,
                     name |-> name.val,
                     serial |-> serial.val,
                     vendor_id |-> id.val.vendor_id,
                     product_id |-> id.val.product_id])

\* enum DeviceEvent, with the number of the notification that caused it (0 for
\* the initial scan).
Added(info, n) == [type |-> "Added", path |-> info.sys_path, info |-> Some(info), seq |-> n]
Removed(p, n) == [type |-> "Removed", path |-> p, info |-> None, seq |-> n]

\* A udev notification: its event type and its device.  The loop reads the
\* attributes of the device only for an add (get_device_info(&event)); of any
\* other event it takes the syspath alone.
Notification(t, d) ==
    [type |-> t, path |-> d.sys_path,
     kind |-> IF t = "add" THEN d.kind ELSE "none"]
NoEvent == [type |-> "none", path |-> "none", kind |-> "none"]

\* The devices a scan can yield: each sys_path at most once.
AllDevices == {Device(p, k) : p \in Paths, k \in DeviceKinds}

ScanLists ==
    {s \in UNION {[1..n -> AllDevices] : n \in 0..Cardinality(Paths)} :
        \A i, j \in DOMAIN s : i # j => s[i].sys_path # s[j].sys_path}

\* The host's devices while no model of the start-up runs: none changes.
WorldIdle ==
    /\ attached = [p \in Paths |-> "none"]
    /\ queue = <<>>
    /\ nchanges = 0

\* The report parser's variables while it is not used.
ReportIdle ==
    /\ inputs = <<>>
    /\ rpc = "idle"
    /\ fold_i = 0
    /\ bits = 0
    /\ len_out = 0
    /\ report_len = 0
    /\ parse_out = "none"

\* The watcher's variables while it does not run.
WatchIdle ==
    /\ wpc = "idle"
    /\ read_enabled = TRUE
    /\ stop_queue = 0
    /\ stop_tx = "alive"
    /\ dev = "ok"
    /\ input_ready = FALSE
    /\ nread = 0
    /\ wexit = "none"
    /\ recv_out = "pending"

\* The monitor's variables while it does not run.
MonitorIdle ==
    /\ mpc = "idle"
    /\ scan = <<>>
    /\ devices = {}
    /\ sent = <<>>
    /\ rx_open = TRUE
    /\ mres = "running"
    /\ nrecv = 0
    /\ event = NoEvent
    /\ mfuture = "pending"
    /\ live = {}

(***************************************************************************)
(* parse_hid_descriptor.  The buffer's bytes are chosen when the cursor    *)
(* reads them: the cursor only moves forward, so every byte is read at     *)
(* most once and the behaviours are those over all buffers of data_len     *)
(* bytes.                                                                  *)
(***************************************************************************)

\* A prefix byte has been read into first.
PrefixRead == pos > itemStart

\* Bytes a read on the Cursor can still get: none once the position is at or
\* past the end.
Remaining == IF pos >= data_len THEN 0 ELSE data_len - pos

\* The position a failed Cursor::read_exact leaves: unchanged, or (later
\* releases of std) the end of the buffer.
FailedReadPos == {pos, data_len}

ParseInit ==
    /\ data_len \in 0..MaxLen
    /\ pos = 0
    /\ ppc = "loop"
    /\ first = 0
    /\ long_desc = <<0, 0>>
    /\ data_buf = <<0, 0, 0, 0>>
    /\ tag = NoTag
    /\ item = NoItem
    /\ result = "running"
    /\ err = "none"
    /\ itemStart = 0
    /\ consumed = 0
    /\ MonitorIdle
    /\ WatchIdle
    /\ ReportIdle
    /\ WorldIdle

\* while cur.read_exact(&mut prefix).is_ok() : the read succeeds
ReadPrefix ==
    /\ ppc = "loop"
    /\ Remaining >= 1
    /\ \E b \in Byte :
        /\ first' = b
        /\ ppc' = IF b = LONG_ITEM THEN "long" ELSE "short"
    /\ itemStart' = pos
    /\ pos' = pos + 1
    \* the locals of the loop body start afresh in every iteration
    /\ long_desc' = <<0, 0>>
    /\ data_buf' = <<0, 0, 0, 0>>
    /\ tag' = NoTag
    /\ item' = NoItem
    /\ UNCHANGED <<data_len, result, err, consumed, not_parser>>

\* while cur.read_exact(&mut prefix).is_ok() : the read fails, Ok(())
PrefixEof ==
    /\ ppc = "loop"
    /\ Remaining < 1
    /\ pos' \in FailedReadPos
    /\ ppc' = "done"
    /\ result' = "ok"
    /\ UNCHANGED <<data_len, first, long_desc, data_buf, tag, item, err,
                   itemStart, consumed, not_parser>>

\* The position after seek(SeekFrom::Current(n)) from position p, n >= 0: a
\* Cursor seeks past the end of its buffer without an error.
SeekCurrent(p, n) == p + n

\* first == LONG_ITEM: the two header bytes are read and long_size bytes skipped
LongItem ==
    /\ ppc = "long"
    /\ Remaining >= 2
    /\ \E l \in SampleBytes, t \in SampleBytes :
        /\ long_desc' = <<l, t>>
        /\ pos' = SeekCurrent(pos + 2, l)
    /\ consumed' = pos'
    /\ ppc' = "loop"
    /\ UNCHANGED <<data_len, first, data_buf, tag, item, result, err, itemStart, not_parser>>

\* first == LONG_ITEM: cur.read_exact(&mut long_desc)? fails
LongItemEof ==
    /\ ppc = "long"
    /\ Remaining < 2
    /\ pos' \in FailedReadPos
    /\ ppc' = "done"
    /\ result' = "err"
    /\ err' = "eof"
    /\ UNCHANGED <<data_len, first, long_desc, data_buf, tag, item, itemStart,
                   consumed, not_parser>>

\* The kind of error ItemTag::try_from returned.
TagError(t) == IF t.err = "Bad item type" THEN "type" ELSE "tag"

\* short item: ItemTag::try_from((ty, tag))? fails
ShortItemBadTag ==
    /\ ppc = "short"
    /\ LET t == ItemTag_try_from(TypeOf(first), TagOf(first)) IN
        /\ ~t.ok
        /\ tag' = t
        /\ err' = TagError(t)
    /\ ppc' = "done"
    /\ result' = "err"
    /\ UNCHANGED <<data_len, pos, first, long_desc, data_buf, item, itemStart,
                   consumed, not_parser>>

\* Mutant: the payload is read before the tag is looked at.
ShortItemEof_before_tag ==
    /\ ppc = "short"
    /\ tag' = ItemTag_try_from(TypeOf(first), TagOf(first))
    /\ SizeOf(first) > 0
    /\ Remaining < SizeOf(first)
    /\ pos' \in FailedReadPos
    /\ ppc' = "done"
    /\ result' = "err"
    /\ err' = "eof"
    /\ UNCHANGED <<data_len, first, long_desc, data_buf, item, itemStart,
                   consumed, not_parser>>

\* short item: cur.read_exact(&mut data_buf[..size])? fails
ShortItemEof ==
    /\ ppc = "short"
    /\ LET t == ItemTag_try_from(TypeOf(first), TagOf(first)) IN
        /\ t.ok
        /\ tag' = t
    /\ SizeOf(first) > 0
    /\ Remaining < SizeOf(first)
    /\ pos' \in FailedReadPos
    /\ ppc' = "done"
    /\ result' = "err"
    /\ err' = "eof"
    /\ UNCHANGED <<data_len, first, long_desc, data_buf, item, itemStart,
                   consumed, not_parser>>

\* data_buf = [0, 0, 0, 0] with its first size bytes read from the buffer
FilledBufs(size) ==
    {b \in [1..4 -> SampleBytes \cup {0}] :
        \A i \in 1..4 : i > size => b[i] = 0}

\* short item: the tag resolves and the payload is read
ShortItem ==
    /\ ppc = "short"
    /\ LET t == ItemTag_try_from(TypeOf(first), TagOf(first)) IN
        /\ t.ok
        /\ tag' = t
    /\ Remaining >= SizeOf(first)
    /\ \E b \in FilledBufs(SizeOf(first)) :
        /\ data_buf' = b
        /\ item' = ItemDataOf(SizeOf(first), b)
    /\ pos' = pos + SizeOf(first)
    /\ consumed' = pos'
    /\ ppc' = "loop"
    /\ UNCHANGED <<data_len, first, long_desc, result, err, itemStart, not_parser>>

ParseNext ==
    \/ ReadPrefix
    \/ PrefixEof
    \/ LongItem
    \/ LongItemEof
    \/ ShortItemBadTag
    \/ ShortItemEof
    \/ ShortItem

SpecParse == ParseInit /\ [][ParseNext]_vars

(***************************************************************************)
(* monitor_devices_internal.  Each action is one iteration of one of its   *)
(* two loops: the task is the only one that touches devices, and what the  *)
(* rest of the process does at its await points (dropping the receiver)    *)
(* is the action ReceiverDropped.                                          *)
(***************************************************************************)
MonitorInit ==
    /\ mpc = "scan"
    /\ scan \in ScanLists
    /\ devices = {}
    /\ sent = <<>>
    /\ rx_open = TRUE
    /\ mres = "running"
    /\ nrecv = 0
    /\ event = NoEvent
    /\ mfuture = "pending"
    /\ live = {}

\* live once the monitor has been handed the device d by the scan or by an
\* add notification (t = "add"), or by a notification of another type t.
LiveAfter(t, d) ==
    CASE t = "add" -> IF get_device_info(d).ok THEN live \cup {d.sys_path} ELSE live
      [] t = "remove" -> live \ {d.sys_path}
      [] OTHER -> live

\* tx.send(ev).await? : the event is delivered, or the receiver is gone and
\* the error is returned.
Send(ev) ==
    IF rx_open
    THEN /\ sent' = Append(sent, ev)
         /\ UNCHANGED <<mpc, mres>>
    ELSE /\ sent' = sent
         /\ mpc' = "done"
         /\ mres' = "err"

\* Mutant: the device is inserted only once its event has been sent.
TrackDevice_send_first(device, n) ==
    LET r == get_device_info(device) IN
    IF r.ok
    THEN /\ Send(Added(r.info, n))
         /\ devices' = IF rx_open THEN devices \cup {r.info.sys_path} ELSE devices
    ELSE UNCHANGED <<devices, sent, mpc, mres>>

\* Mutant: an error of get_device_info is returned, as with a ?.
TrackDevice_bails(device, n) ==
    LET r == get_device_info(device) IN
    IF r.ok
    THEN /\ devices' = devices \cup {r.info.sys_path}
         /\ Send(Added(r.info, n))
    ELSE /\ mpc' = "done"
         /\ mres' = "err"
         /\ UNCHANGED <<devices, sent>>

\* match get_device_info(&device).await { Ok(info) => insert and send,
\* Err(_) => {} }, with n the number of the notification (0 in the scan)
TrackDevice(device, n) ==
    LET r == get_device_info(device) IN
    IF r.ok
    THEN /\ devices' = devices \cup {r.info.sys_path}
         /\ Send(Added(r.info, n))
    ELSE UNCHANGED <<devices, sent, mpc, mres>>

\* for device in enumerator.scan_devices()? : one device of the scan
ScanDevice ==
    /\ mpc = "scan"
    /\ scan # <<>>
    /\ TrackDevice(Head(scan), 0)
    /\ scan' = Tail(scan)
    /\ live' = LiveAfter("add", Head(scan))
    /\ UNCHANGED <<rx_open, nrecv, event, mfuture, not_monitor>>

\* The scan is over; MonitorBuilder::new()?.match_subsystem("hidraw")?
\* .listen()?.try_into()? gives the monitor socket.
Listen ==
    /\ mpc = "scan"
    /\ scan = <<>>
    /\ mpc' = "monitor"
    /\ UNCHANGED <<scan, devices, sent, rx_open, mres, nrecv, event, live, mfuture, not_monitor>>

\* Building the monitor socket fails and the error is returned.
ListenFails ==
    /\ mpc = "scan"
    /\ scan = <<>>
    /\ mpc' = "done"
    /\ mres' = "err"
    /\ UNCHANGED <<scan, devices, sent, rx_open, nrecv, event, live, mfuture, not_monitor>>

\* monitor.next() yields an event of type t for device d
Receive(t, d) ==
    /\ mpc = "monitor"
    /\ nrecv < MaxNotes
    /\ nrecv' = nrecv + 1
    /\ event' = Notification(t, d)
    /\ live' = LiveAfter(t, d)

\* EventType::Add
MonitorAdd(d) ==
    /\ Receive("add", d)
    /\ TrackDevice(d, nrecv + 1)
    /\ UNCHANGED <<scan, rx_open, mfuture, not_monitor>>

\* Mutant: a Removed event is sent whether or not the device is tracked.
MonitorRemove_unchecked(d) ==
    /\ Receive("remove", d)
    /\ devices' = devices \ {d.sys_path}
    /\ Send(Removed(d.sys_path, nrecv + 1))
    /\ UNCHANGED <<scan, rx_open, mfuture, not_monitor>>

\* Mutant: a remove for an untracked device is returned as an error.
MonitorRemove_bails(d) ==
    /\ Receive("remove", d)
    /\ IF d.sys_path \in devices
       THEN /\ devices' = devices \ {d.sys_path}
            /\ Send(Removed(d.sys_path, nrecv + 1))
       ELSE /\ mpc' = "done"
            /\ mres' = "err"
            /\ UNCHANGED <<devices, sent>>
    /\ UNCHANGED <<scan, rx_open, mfuture, not_monitor>>

\* EventType::Remove
MonitorRemove(d) ==
    /\ Receive("remove", d)
    /\ IF d.sys_path \in devices
       THEN /\ devices' = devices \ {d.sys_path}
            /\ Send(Removed(d.sys_path, nrecv + 1))
       ELSE \* warn!("Remove event for unknown device")
            UNCHANGED <<devices, sent, mpc, mres>>
    /\ UNCHANGED <<scan, rx_open, mfuture, not_monitor>>

\* Any other event type: _ => {}
MonitorOther(d) ==
    /\ Receive("change", d)
    /\ UNCHANGED <<scan, devices, sent, rx_open, mpc, mres, mfuture, not_monitor>>

\* let event = event?; : the monitor socket yields an error
MonitorError ==
    /\ mpc = "monitor"
    /\ mpc' = "done"
    /\ mres' = "err"
    /\ UNCHANGED <<scan, devices, sent, rx_open, nrecv, event, live, mfuture, not_monitor>>

\* monitor.next() yields None: the loop ends and Ok(()) is returned
MonitorEnd ==
    /\ mpc = "monitor"
    /\ mpc' = "done"
    /\ mres' = "ok"
    /\ UNCHANGED <<scan, devices, sent, rx_open, nrecv, event, live, mfuture, not_monitor>>

\* The receiving half of the channel is dropped by its owner.
ReceiverDropped ==
    /\ mpc \in {"scan", "monitor"}
    /\ rx_open
    /\ rx_open' = FALSE
    /\ UNCHANGED <<mpc, scan, devices, sent, mres, nrecv, event, live, mfuture, not_monitor>>

\* monitor_devices: the LocalSet it returns completes once the task spawned on
\* it has ended; the task's JoinHandle was dropped, and with it the task's
\* Result, so the output is () either way.
LocalSetCompletes ==
    /\ mpc = "done"
    /\ mfuture = "pending"
    /\ mfuture' = "unit"
    /\ UNCHANGED <<mpc, scan, devices, sent, rx_open, mres, nrecv, event, live,
                   not_monitor>>

MonitorNext ==
    \/ ScanDevice
    \/ Listen
    \/ ListenFails
    \/ \E d \in AllDevices : MonitorAdd(d)
    \/ \E d \in AllDevices : MonitorRemove(d)
    \/ \E d \in AllDevices : MonitorOther(d)
    \/ MonitorError
    \/ MonitorEnd
    \/ ReceiverDropped
    \/ LocalSetCompletes

\* The parser's variables while it does not run.
ParseIdle ==
    /\ data_len = 0
    /\ pos = 0
    /\ ppc = "idle"
    /\ first = 0
    /\ long_desc = <<0, 0>>
    /\ data_buf = <<0, 0, 0, 0>>
    /\ tag = NoTag
    /\ item = NoItem
    /\ result = "running"
    /\ err = "none"
    /\ itemStart = 0
    /\ consumed = 0

\* Only the monitor runs.
MonitorStart ==
    /\ MonitorInit
    /\ ParseIdle
    /\ WatchIdle
    /\ ReportIdle
    /\ WorldIdle

SpecMonitor == MonitorStart /\ [][MonitorNext]_vars

(***************************************************************************)
(* device.rs: watch_one_device.  Each iteration of the loop is one         *)
(* tokio::select! over stop_rx.recv() and evdev_file.read_exact().  A      *)
(* branch whose future completes with a value that does not match its      *)
(* pattern is disabled and the select! goes on waiting for the others; the *)
(* else branch runs only when every branch is disabled, which the          *)
(* irrefutable pattern of the stop_rx.recv() branch rules out.             *)
(***************************************************************************)
WatchInit ==
    /\ wpc = "open"
    /\ read_enabled = TRUE
    /\ stop_queue = 0
    /\ stop_tx = "alive"
    /\ dev \in {"ok", "gone"}
    /\ input_ready = FALSE
    /\ nread = 0
    /\ wexit = "none"
    /\ recv_out = "pending"

\* OpenOptions::new().read(true).write(true).open(&info.device_node).await?
\* succeeds and the loop is entered
OpenOk ==
    /\ wpc = "open"
    /\ dev = "ok"
    /\ wpc' = "select"
    /\ read_enabled' = TRUE
    /\ UNCHANGED <<stop_queue, stop_tx, dev, input_ready, nread, wexit, recv_out, not_watcher>>

\* the open fails and its error is returned
OpenFails ==
    /\ wpc = "open"
    /\ dev = "gone"
    /\ wpc' = "done"
    /\ wexit' = "open_err"
    /\ UNCHANGED <<read_enabled, stop_queue, stop_tx, dev, input_ready, nread, recv_out, not_watcher>>

\* Ok(_) = evdev_file.read_exact(&mut event_buf) => the event is logged and
\* the loop starts the next select!
ReadEvent ==
    /\ wpc = "select"
    /\ read_enabled
    /\ dev = "ok"
    /\ input_ready
    /\ input_ready' = FALSE
    /\ nread' = IF nread < MaxReads THEN nread + 1 ELSE nread
    /\ read_enabled' = TRUE
    /\ UNCHANGED <<wpc, stop_queue, stop_tx, dev, wexit, recv_out, not_watcher>>

\* read_exact completes with Err: the pattern Ok(_) does not match, the branch
\* is disabled and the select! keeps waiting on stop_rx.recv()
ReadFails ==
    /\ wpc = "select"
    /\ read_enabled
    /\ dev = "gone"
    /\ read_enabled' = FALSE
    /\ UNCHANGED <<wpc, stop_queue, stop_tx, dev, input_ready, nread, wexit, recv_out, not_watcher>>

\* Mutant: the stop branch is polled only once the read branch is disabled.
StopRecv_after_read ==
    /\ wpc = "select"
    /\ ~read_enabled
    /\ stop_queue > 0 \/ stop_tx = "dropped"
    /\ stop_queue' = IF stop_queue > 0 THEN stop_queue - 1 ELSE stop_queue
    /\ recv_out' = IF stop_queue > 0 THEN "Some" ELSE "None"
    /\ wpc' = "done"
    /\ wexit' = "stop"
    /\ UNCHANGED <<read_enabled, stop_tx, dev, input_ready, nread, not_watcher>>

\* Mutant: recv() completes only with a queued signal; a closed channel leaves
\* it pending.
StopRecv_signal_only ==
    /\ wpc = "select"
    /\ stop_queue > 0
    /\ stop_queue' = stop_queue - 1
    /\ recv_out' = "Some"
    /\ wpc' = "done"
    /\ wexit' = "stop"
    /\ UNCHANGED <<read_enabled, stop_tx, dev, input_ready, nread, not_watcher>>

\* _ = stop_rx.recv() => break : recv() completes with Some(()) for a queued
\* signal, or with None once the sender is dropped and the queue is empty
StopRecv ==
    /\ wpc = "select"
    /\ stop_queue > 0 \/ stop_tx = "dropped"
    /\ stop_queue' = IF stop_queue > 0 THEN stop_queue - 1 ELSE stop_queue
    /\ recv_out' = IF stop_queue > 0 THEN "Some" ELSE "None"
    /\ wpc' = "done"
    /\ wexit' = "stop"
    /\ UNCHANGED <<read_enabled, stop_tx, dev, input_ready, nread, not_watcher>>

\* The holder of the stop channel's sender sends a cancellation signal.
SendStop ==
    /\ wpc # "done"
    /\ stop_tx = "alive"
    /\ stop_queue < MaxStops
    /\ stop_queue' = stop_queue + 1
    /\ UNCHANGED <<wpc, read_enabled, stop_tx, dev, input_ready, nread, wexit, recv_out, not_watcher>>

\* The holder of the stop channel's sender drops it.
DropSender ==
    /\ stop_tx = "alive"
    /\ stop_tx' = "dropped"
    /\ UNCHANGED <<wpc, read_enabled, stop_queue, dev, input_ready, nread, wexit, recv_out, not_watcher>>

\* The device produces an input event.
InputArrives ==
    /\ dev = "ok"
    /\ ~input_ready
    /\ input_ready' = TRUE
    /\ UNCHANGED <<wpc, read_enabled, stop_queue, stop_tx, dev, nread, wexit, recv_out, not_watcher>>

\* The device disappears: every later open and read fails.
DeviceGone ==
    /\ dev = "ok"
    /\ dev' = "gone"
    /\ UNCHANGED <<wpc, read_enabled, stop_queue, stop_tx, input_ready, nread, wexit, recv_out, not_watcher>>

WatchNext ==
    \/ OpenOk
    \/ OpenFails
    \/ ReadEvent
    \/ ReadFails
    \/ StopRecv
    \/ SendStop
    \/ DropSender
    \/ InputArrives
    \/ DeviceGone

\* Only the watcher runs.
WatchStart ==
    /\ WatchInit
    /\ ParseIdle
    /\ MonitorIdle
    /\ ReportIdle
    /\ WorldIdle

SpecWatch == WatchStart /\ [][WatchNext]_vars

\* The runtime completes the open, and a select! whose stop branch stays ready
\* takes it in the end: its branches are polled in a random order.
LiveWatch ==
    /\ WatchStart
    /\ [][WatchNext]_vars
    /\ WF_vars(OpenOk \/ OpenFails)
    /\ WF_vars(StopRecv)

(***************************************************************************)
(* report.rs: HidReportParser.  A layout is the sequence of the sizes of   *)
(* its items; len() folds them and parse() takes a report buffer.          *)
(***************************************************************************)
\* enum Size
Bits(n) == [unit |-> "Bits", n |-> n]
Bytes(n) == [unit |-> "Bytes", n |-> n]

\* The sizes the items of a layout are drawn from.
SampleSizes == {Bits(1), Bits(4), Bits(12), Bytes(1), Bytes(2)}

\* logitech_f310_parser: the sizes of its inputs
logitech_f310_parser ==
    <<Bytes(1), Bytes(1), Bytes(1), Bytes(1), Bits(4), Bits(12), Bytes(2)>>

\* The layouts: every sequence of up to MaxFields sizes, and the F310's.
Layouts ==
    UNION {[1..n -> SampleSizes] : n \in 0..MaxFields}
    \cup {logitech_f310_parser}

\* The closure of the fold of len(): the bits of one item
SizeBits(size) ==
    CASE size.unit = "Bits" -> size.n
      [] size.unit = "Bytes" -> size.n * 8

\* The last expression of len(): bits / 8 on usize
LenResult(b) == b \div 8

ReportInit ==
    /\ inputs \in Layouts
    /\ rpc = "len"
    /\ fold_i = 0
    /\ bits = 0
    /\ len_out = 0
    /\ report_len = 0
    /\ parse_out = "none"

\* len(): one step of self.inputs.iter().fold(0, |sum, i| sum + ...)
LenFold ==
    /\ rpc = "len"
    /\ fold_i < Len(inputs)
    /\ bits' = bits + SizeBits(inputs[fold_i + 1])
    /\ fold_i' = fold_i + 1
    /\ UNCHANGED <<inputs, rpc, len_out, report_len, parse_out, not_report>>

\* len(): the fold is over and bits / 8 is returned
LenReturn ==
    /\ rpc = "len"
    /\ fold_i = Len(inputs)
    /\ len_out' = LenResult(bits)
    /\ rpc' = "parse"
    /\ UNCHANGED <<inputs, fold_i, bits, report_len, parse_out, not_report>>

\* parse(&self, _report: &[u8]) {} with a report of n bytes: nothing is done
\* and () is returned
Parse(n) ==
    /\ rpc = "parse"
    /\ report_len' = n
    /\ parse_out' = "unit"
    /\ rpc' = "done"
    /\ UNCHANGED <<inputs, fold_i, bits, len_out, not_report>>

ReportNext ==
    \/ LenFold
    \/ LenReturn
    \/ \E n \in 0..MaxReport : Parse(n)

\* Only the report parser is used.
ReportStart ==
    /\ ReportInit
    /\ ParseIdle
    /\ MonitorIdle
    /\ WatchIdle
    /\ WorldIdle

SpecReport == ReportStart /\ [][ReportNext]_vars

(***************************************************************************)
(* The start-up of monitor_devices_internal on a host whose devices come   *)
(* and go.  scan_devices() yields the devices attached when it is called;  *)
(* the monitor socket queues the notifications of the changes that happen  *)
(* from its listen() on, and a change before that reaches no socket.       *)
(***************************************************************************)
\* The kinds of the devices that come and go.
HotplugKinds == {"usb_gamepad", "usb_mouse"}

\* The devices attached now.
AttachedDevices ==
    {Device(p, attached[p]) : p \in {q \in Paths : attached[q] # "none"}}

StartupInit ==
    /\ mpc = "enumerate"
    /\ scan = <<>>
    /\ devices = {}
    /\ sent = <<>>
    /\ rx_open = TRUE
    /\ mres = "running"
    /\ nrecv = 0
    /\ event = NoEvent
    /\ mfuture = "pending"
    /\ live = {}
    /\ attached \in [Paths -> HotplugKinds \cup {"none"}]
    /\ queue = <<>>
    /\ nchanges = 0

\* enumerator.scan_devices()? : the devices attached now, in some order
Enumerate ==
    /\ mpc = "enumerate"
    /\ scan' \in {s \in ScanLists : {s[i] : i \in DOMAIN s} = AttachedDevices}
    /\ mpc' = "scan"
    /\ UNCHANGED <<devices, sent, rx_open, mres, nrecv, event, mfuture, live,
                   not_monitor>>

\* The monitor socket exists and listens: builder...listen()? has returned.
Listening == mpc = "monitor"

\* The kernel's notification of a change is queued at the socket if it listens.
Notify(t, d) ==
    queue' = IF Listening THEN Append(queue, [type |-> t, dev |-> d]) ELSE queue

\* When the devices change: before the enumeration, between the end of the
\* scan loop and listen(), and while the socket listens.
ChangeTime ==
    \/ mpc = "enumerate"
    \/ mpc = "scan" /\ scan = <<>>
    \/ Listening

\* A device of kind k is attached at sys_path p.
Attach(p, k) ==
    /\ ChangeTime
    /\ nchanges < MaxChanges
    /\ attached[p] = "none"
    /\ attached' = [attached EXCEPT ![p] = k]
    /\ Notify("add", Device(p, k))
    /\ nchanges' = nchanges + 1
    /\ UNCHANGED <<pvars, mvars, wvars, rvars>>

\* The device at sys_path p is detached.
Detach(p) ==
    /\ ChangeTime
    /\ nchanges < MaxChanges
    /\ attached[p] # "none"
    /\ attached' = [attached EXCEPT ![p] = "none"]
    /\ Notify("remove", Device(p, attached[p]))
    /\ nchanges' = nchanges + 1
    /\ UNCHANGED <<pvars, mvars, wvars, rvars>>

\* monitor.next() yields the oldest queued notification, an add: EventType::Add
SocketAdd ==
    /\ queue # <<>>
    /\ Head(queue).type = "add"
    /\ Receive("add", Head(queue).dev)
    /\ TrackDevice(Head(queue).dev, nrecv + 1)
    /\ queue' = Tail(queue)
    /\ UNCHANGED <<scan, rx_open, mfuture, attached, nchanges, pvars, wvars, rvars>>

\* monitor.next() yields the oldest queued notification, a remove:
\* EventType::Remove
SocketRemove ==
    /\ queue # <<>>
    /\ Head(queue).type = "remove"
    /\ LET d == Head(queue).dev IN
        /\ Receive("remove", d)
        /\ IF d.sys_path \in devices
           THEN /\ devices' = devices \ {d.sys_path}
                /\ Send(Removed(d.sys_path, nrecv + 1))
           ELSE UNCHANGED <<devices, sent, mpc, mres>>
    /\ queue' = Tail(queue)
    /\ UNCHANGED <<scan, rx_open, mfuture, attached, nchanges, pvars, wvars, rvars>>

StartupNext ==
    \/ Enumerate
    \/ ScanDevice
    \/ Listen
    \/ SocketAdd
    \/ SocketRemove
    \/ \E p \in Paths, k \in HotplugKinds : Attach(p, k)
    \/ \E p \in Paths : Detach(p)

\* Only the monitor and the host's devices run.
StartupStart ==
    /\ StartupInit
    /\ ParseIdle
    /\ WatchIdle
    /\ ReportIdle

SpecStartup == StartupStart /\ [][StartupNext]_vars

(***************************************************************************)
(* Properties of parse_hid_descriptor (checked under SpecParse).           *)
(***************************************************************************)

\* The item whose prefix was read last is complete: its bytes were consumed.
ItemComplete == PrefixRead /\ consumed > itemStart

\* The last item is a long item whose header was read and whose declared
\* length exceeds the bytes that follow the header.
TruncatedLongItem ==
    /\ ItemComplete
    /\ first = LONG_ITEM
    /\ long_desc[1] > data_len - (itemStart + 3)

\* C1: a long item followed by fewer bytes than its length byte declares makes
\* the parse return an error, and the cursor never passes the end of the
\* buffer.
C1_TruncatedLongItemFails ==
    (ppc = "done" /\ TruncatedLongItem) => (result = "err" /\ pos <= data_len)

\* The payload byte count the HID item format gives a size code.
ClaimedPayloadLen(code) ==
    CASE code = 0 -> 0 [] code = 1 -> 1 [] code = 2 -> 2 [] code = 3 -> 4

\* C2: a complete short item has consumed, after its prefix, the number of
\* payload bytes its size code stands for (0, 1, 2, 4), so the next prefix is
\* the byte right after them; size code 3 yields a U32.
C2_ShortItemPayloadLength ==
    (ItemComplete /\ first # LONG_ITEM) =>
        /\ consumed = itemStart + 1 + ClaimedPayloadLen(SizeOf(first))
        /\ SizeOf(first) = 3 => item.kind = "U32"

\* C3: when the parse returns Ok, the items consumed exactly the buffer: the
\* position after the last item, and the cursor, equal the buffer length.
C3_SuccessConsumesBuffer ==
    result = "ok" => (consumed = data_len /\ pos = data_len)

\* C4: a short item whose type bits are 3 (Reserved) makes the parse fail,
\* whatever its tag nibble and size code and whatever follows; nothing of the
\* buffer is consumed after its prefix.
C4_ReservedTypeFails ==
    (PrefixRead /\ first # LONG_ITEM /\ TypeOf(first) = 3 /\ ppc # "short") =>
        /\ ppc = "done"
        /\ result = "err"
        /\ err = "type"
        /\ pos = itemStart + 1
        /\ consumed <= itemStart

\* C4 witness: a Reserved-type item with tag nibble 0xF and size code 1 has
\* been rejected while bytes follow it.
C4_Witness ==
    /\ ppc = "done"
    /\ result = "err"
    /\ first = 253
    /\ TypeOf(first) = 3
    /\ Remaining >= 2

\* The (type, tag nibble) combinations outside the tag tables.
OutsideTagTables(ty, tg) ==
    \/ ty = 0 /\ tg \notin {8, 9, 10, 11, 12}
    \/ ty = 1 /\ tg \in {13, 14, 15}

\* C5: a Main item with a tag nibble outside 0x8..0xC and a Global item with
\* tag nibble 0xD, 0xE or 0xF make the parse fail with no tag resolved, while
\* a Local item resolves to its own tag nibble for all 16 nibbles.
C5_UnknownTagRejected ==
    (PrefixRead /\ first # LONG_ITEM /\ ppc # "short") =>
        /\ OutsideTagTables(TypeOf(first), TagOf(first)) =>
              /\ ppc = "done"
              /\ result = "err"
              /\ err = "tag"
              /\ ~tag.ok
              /\ consumed <= itemStart
        /\ TypeOf(first) = 2 => tag = TagOk("Local", TagOf(first))

\* C5 witness: a Global item with tag nibble 0xD has been rejected after an
\* earlier item of the buffer was accepted.
C5_Witness ==
    /\ ppc = "done"
    /\ err = "tag"
    /\ TypeOf(first) = 1
    /\ TagOf(first) = 13
    /\ itemStart > 0

(***************************************************************************)
(* Properties of monitor_devices_internal (checked under SpecMonitor).     *)
(***************************************************************************)

\* The events of sent strictly between positions i and j hold a Removed(p).
RemovedBetween(p, i, j) ==
    \E k \in (i + 1)..(j - 1) : sent[k].type = "Removed" /\ sent[k].path = p

\* C6: every Removed(p) on the channel comes after an Added for p with no
\* other Removed(p) between the two, and the events of one sys_path are in
\* the order of the notifications that caused them.
C6_RemovedFollowsAdded ==
    /\ \A i \in 1..Len(sent) :
          sent[i].type = "Removed" =>
              \E j \in 1..(i - 1) :
                  /\ sent[j].type = "Added"
                  /\ sent[j].path = sent[i].path
                  /\ ~RemovedBetween(sent[i].path, j, i)
    /\ \A i, j \in 1..Len(sent) :
          (i < j /\ sent[i].path = sent[j].path) => sent[i].seq < sent[j].seq

\* C6 witness: a device was announced, another one was announced, and the
\* first was removed and announced again.
C6_Witness ==
    /\ Len(sent) >= 4
    /\ sent[1].type = "Added"
    /\ sent[2].type = "Added" /\ sent[2].path # sent[1].path
    /\ sent[3].type = "Removed" /\ sent[3].path = sent[1].path
    /\ sent[4].type = "Added" /\ sent[4].path = sent[1].path

\* C7: an add for a sys_path that is already tracked delivers no second Added:
\* two Added events of one sys_path always have a Removed of it between them.
C7_NoSecondAdded ==
    \A i, j \in 1..Len(sent) :
        (/\ i < j
         /\ sent[i].type = "Added"
         /\ sent[j].type = "Added"
         /\ sent[i].path = sent[j].path) => RemovedBetween(sent[i].path, i, j)

\* C8: a remove notification for an untracked sys_path sends nothing, leaves
\* the tracked set as it was, returns no error, and the loop goes on.
C8_UnknownRemoveIgnored ==
    [][(/\ nrecv' = nrecv + 1
        /\ event'.type = "remove"
        /\ event'.path \notin devices) =>
            (/\ devices' = devices
             /\ sent' = sent
             /\ mpc' = "monitor"
             /\ mres' = "running")]_vars

\* C8 witness: the last notification was a remove for an untracked sys_path
\* (no event was sent for it) while another device is tracked.
C8_Witness ==
    /\ mpc = "monitor"
    /\ nrecv >= 1
    /\ event.type = "remove"
    /\ \A i \in 1..Len(sent) : sent[i].seq # nrecv
    /\ devices # {}
    /\ event.path \notin devices

(***************************************************************************)
(* Properties of watch_one_device (checked under SpecWatch and LiveWatch). *)
(***************************************************************************)

\* C9: a failed read makes the watcher leave its loop by itself: it is never
\* left in the select! with its read failed, waiting for the stop channel.
C9_ReadFailureTerminates ==
    ~(wpc = "select" /\ ~read_enabled)

\* C10: once a cancellation signal is sent the watcher ends, whether or not
\* input events keep arriving, and after taking the cancellation branch it
\* reads no further event.
C10_CancelTerminates ==
    /\ (stop_queue > 0) ~> (wpc = "done")
    /\ [][wexit = "stop" => (nread' = nread /\ wpc' = "done")]_vars

\* C10 witness: the watcher ended on a cancellation signal after it had read
\* events from a device that is still there.
C10_Witness ==
    /\ wpc = "done"
    /\ wexit = "stop"
    /\ stop_tx = "alive"
    /\ dev = "ok"
    /\ nread >= 2

(***************************************************************************)
(* Properties of HidReportParser (checked under SpecReport).               *)
(***************************************************************************)

\* The sum of the bit widths of the items of a layout.
RECURSIVE TotalBits(_)
TotalBits(layout) ==
    IF layout = <<>> THEN 0
    ELSE (IF Head(layout).unit = "Bits" THEN Head(layout).n ELSE 8 * Head(layout).n)
         + TotalBits(Tail(layout))

\* total bits rounded up to whole bytes
CeilBytes(b) == (b + 7) \div 8

\* C11: len() returns the summed bit widths of the layout rounded up to whole
\* bytes, also when the sum is no multiple of 8.
C11_LenRoundsUp ==
    rpc \in {"parse", "done"} => len_out = CeilBytes(TotalBits(inputs))

\* C12: parse() of a report shorter than the layout's bits rounded up to
\* whole bytes fails with TooShort.
C12_ShortReportFails ==
    (rpc = "done" /\ report_len < CeilBytes(TotalBits(inputs))) =>
        parse_out = "TooShort"

(***************************************************************************)
(* Further properties of parse_hid_descriptor (checked under SpecParse).   *)
(***************************************************************************)

\* The last prefix read opens a short item whose payload, by the number of
\* bytes the code reads for its size code, extends past the end of the buffer.
TruncatedShortItem ==
    /\ PrefixRead
    /\ first # LONG_ITEM
    /\ itemStart + 1 + SizeOf(first) > data_len

\* The last prefix read opens a long item whose two header bytes are not all
\* in the buffer.
CutLongHeader ==
    /\ PrefixRead
    /\ first = LONG_ITEM
    /\ itemStart + 1 + 2 > data_len

\* The tag of the last short item does not resolve.
InvalidTag == ~ItemTag_try_from(TypeOf(first), TagOf(first)).ok

\* C18: a short item whose payload extends past the end of the buffer and a
\* long item whose header is cut off make the parse fail; when the tag of the
\* truncated short item is invalid too, the error is the tag's and not the
\* read's.
C18_TruncatedItemFails ==
    ppc = "done" =>
        /\ TruncatedShortItem => result = "err"
        /\ (TruncatedShortItem /\ ~InvalidTag) => err = "eof"
        /\ (TruncatedShortItem /\ InvalidTag) =>
              err = TagError(ItemTag_try_from(TypeOf(first), TagOf(first)))
        /\ CutLongHeader => (result = "err" /\ err = "eof")

\* a two-byte short item with an unknown tag and a one-byte rest has failed
\* because of its tag
C18_Witness ==
    /\ ppc = "done"
    /\ TruncatedShortItem
    /\ InvalidTag
    /\ SizeOf(first) = 2
    /\ data_len = itemStart + 2
    /\ err = "tag"

(***************************************************************************)
(* Further properties of watch_one_device (checked under LiveWatch).       *)
(***************************************************************************)

\* C19: once the stop channel's sender is dropped with no signal queued, a
\* watcher in its loop leaves it and terminates, by the same break as for a
\* received signal, recv() having completed with None.
C19_ClosedChannelTerminates ==
    (wpc = "select" /\ stop_tx = "dropped" /\ stop_queue = 0)
        ~> (wpc = "done" /\ wexit = "stop" /\ recv_out = "None")

\* the watcher has ended on the closed channel although the device still works
C19_Witness ==
    /\ wpc = "done"
    /\ wexit = "stop"
    /\ recv_out = "None"
    /\ stop_tx = "dropped"
    /\ dev = "ok"

(***************************************************************************)
(* Further properties of the device monitor (checked under SpecMonitor).   *)
(***************************************************************************)

\* parse_hid_descriptor on the bytes of d from its p-th on: TRUE when it
\* returns Ok(()).
RECURSIVE ParsesFrom(_, _)
ParsesFrom(d, p) ==
    IF p > Len(d) THEN TRUE
    ELSE IF d[p] = LONG_ITEM
         THEN IF Len(d) - p < 2 THEN FALSE
              ELSE ParsesFrom(d, SeekCurrent(p + 3, d[p + 1]))
         ELSE IF ~ItemTag_try_from(TypeOf(d[p]), TagOf(d[p])).ok THEN FALSE
              ELSE IF Len(d) - p < SizeOf(d[p]) THEN FALSE
              ELSE ParsesFrom(d, p + 1 + SizeOf(d[p]))

\* parse_hid_descriptor would fail on d
Malformed(d) == ~ParsesFrom(d, 1)

\* C13: a gamepad or joystick whose descriptor is malformed is announced with
\* its parser absent.
C13_MalformedAnnouncedRaw ==
    \A i \in 1..Len(sent) :
        (sent[i].type = "Added" /\ Malformed(sent[i].info.val.hid_descriptor))
            => ~sent[i].info.val.parser

\* The step handles the next device of the initial scan.
ScanStep == mpc = "scan" /\ scan # <<>> /\ scan' = Tail(scan)

\* The step handles an add notification.
AddStep == mpc = "monitor" /\ nrecv' = nrecv + 1 /\ event'.type = "add"

\* The device of the add notification the step has handled.
AddedDevice == Device(event'.path, event'.kind)

\* C14: a step that handles a device get_device_info fails for, in the scan
\* or on an add notification, sends nothing, leaves the tracked set alone and
\* leaves the monitor running where it was.
C14_FailedInfoSkipped ==
    [][/\ (ScanStep /\ ~get_device_info(Head(scan)).ok) =>
            (sent' = sent /\ devices' = devices /\ mpc' = mpc /\ mres' = "running")
       /\ (AddStep /\ ~get_device_info(AddedDevice).ok) =>
            (sent' = sent /\ devices' = devices /\ mpc' = mpc /\ mres' = "running")
      ]_vars

\* after a device was announced from the scan, a second add notification
\* for a device without HID_NAME has been handled and the monitor still runs
C14_Witness ==
    /\ mpc = "monitor"
    /\ nrecv = 2
    /\ event.type = "add"
    /\ event.kind = "no_hid_name"
    /\ sent # <<>>
    /\ devices # {}

\* C15: the tracked collection holds exactly the sys_paths that had a
\* successful add, in the scan or by a notification, and no remove
\* notification since; it holds sys_paths, each at most once.
C15_TrackedSetIsLive ==
    /\ devices = live
    /\ devices \subseteq Paths

\* a device that was announced has been removed while another stays tracked
C15_Witness ==
    /\ event.type = "remove"
    /\ event.path \notin devices
    /\ \E i \in 1..Len(sent) : sent[i].type = "Added" /\ sent[i].path = event.path
    /\ devices # {}

\* The device is of the gamepad/joystick class: its uevent has HID_ID, HID_NAME
\* and HID_UNIQ, its bus id is USB or Bluetooth and its descriptor starts with
\* the gamepad or the joystick usage.
InClass(d) ==
    LET a == DeviceAttrs[d.kind] IN
    /\ {"HID_ID", "HID_NAME", "HID_UNIQ"} \subseteq DOMAIN a.uevent
    /\ a.uevent.HID_ID[1] \in {USB, BLUETOOTH}
    /\ a.descriptor.some
    /\ \/ StartsWith(a.descriptor.val, GAMEPAD_USAGE)
       \/ StartsWith(a.descriptor.val, JOYSTICK_USAGE)

\* C16: every Added event sent carries a descriptor that starts with the
\* gamepad or joystick usage and the bus Usb or Bluetooth, and a step that
\* handles a device outside the class sends nothing and tracks nothing.
C16_OnlyClassAnnounced ==
    [][/\ \A i \in 1..Len(sent') :
            sent'[i].type = "Added" =>
                /\ \/ StartsWith(sent'[i].info.val.hid_descriptor, GAMEPAD_USAGE)
                   \/ StartsWith(sent'[i].info.val.hid_descriptor, JOYSTICK_USAGE)
                /\ sent'[i].info.val.bus \in {"Usb", "Bluetooth"}
       /\ (ScanStep /\ ~InClass(Head(scan))) => (sent' = sent /\ devices' = devices)
       /\ (AddStep /\ ~InClass(AddedDevice)) => (sent' = sent /\ devices' = devices)
      ]_vars

\* an add notification for a gamepad on another bus has been passed over
\* after a Bluetooth joystick was announced
C16_Witness ==
    /\ event.type = "add"
    /\ event.kind = "i2c_gamepad"
    /\ \E i \in 1..Len(sent) :
            sent[i].type = "Added" /\ sent[i].info.val.bus = "Bluetooth"
    /\ event.path \notin devices

\* C17: once the monitor has ended with an error (the monitor socket yielded
\* one, or a send found the receiver gone), nothing more is sent and whoever
\* awaits the future of monitor_devices gets the error.
C17_FeedFailureVisible ==
    (mres = "err" /\ mfuture # "pending") => mfuture = "err"

(***************************************************************************)
(* Properties of the start-up (checked under SpecStartup).                 *)
(***************************************************************************)

\* The sys_paths with a device of the gamepad/joystick class attached now.
AttachedInClass ==
    {p \in Paths : attached[p] # "none" /\ InClass(Device(p, attached[p]))}

\* C20: once the socket listens and every queued notification is handled,
\* the tracked set is the attached gamepads, each announced with an Added,
\* whenever they were attached or detached, between the scan and listen()
\* included.
C20_StartupChangesReflected ==
    (Listening /\ queue = <<>>) =>
        /\ devices = AttachedInClass
        /\ \A p \in AttachedInClass :
              \E i \in 1..Len(sent) : sent[i].type = "Added" /\ sent[i].path = p

(***************************************************************************)
(* The Reserved global tag (checked under SpecParse).                      *)
(***************************************************************************)

\* The last prefix read opens a Global item with tag nibble 0xC, and the tag
\* resolution of the item is over.
ReservedGlobalItem ==
    /\ PrefixRead
    /\ first # LONG_ITEM
    /\ TypeOf(first) = 1
    /\ TagOf(first) = 12
    /\ ppc # "short"

\* C21: a Global item with tag nibble 0xC resolves to the Reserved global tag
\* and never fails because of its tag or type; when its payload is in the
\* buffer the item is consumed and the parse goes on to the next prefix (or
\* ends with Ok at the end of the buffer).
C21_ReservedGlobalTagAccepted ==
    ReservedGlobalItem =>
        /\ tag = TagOk("Global", "Reserved")
        /\ err \notin {"tag", "type"}
        /\ (itemStart + 1 + SizeOf(first) <= data_len) =>
              /\ consumed = itemStart + 1 + SizeOf(first)
              /\ ppc = "loop" \/ (ppc = "done" /\ result = "ok")

\* a Global item with tag nibble 0xC and a one-byte payload has been consumed
\* and bytes of a next item follow
C21_Witness ==
    /\ ReservedGlobalItem
    /\ first = 197
    /\ ppc = "loop"
    /\ tag = TagOk("Global", "Reserved")
    /\ consumed = itemStart + 2
    /\ Remaining >= 1

====
